---------------------------- MODULE Spec2Model ----------------------------
(***************************************************************************)
(* Model of examples/example2_http_server_nodejs.js: an HTTP server bound  *)
(* to the loopback address that stores JSON values posted to /json.        *)
(*                                                                         *)
(* Text is a sequence of text units.  A unit of a request body is one      *)
(* byte (on the wire) or one UTF-16 code unit (in a JavaScript string); a  *)
(* unit of a response may also be a whole word such as "status".  A run of *)
(* white space that ends a body is kept as its length, so that bodies of   *)
(* 1 MB keep their true size.                                              *)
(***************************************************************************)
EXTENDS Integers, Sequences, FiniteSets, TLC

(***************************************************************************)
(* Program constants                                                       *)
(***************************************************************************)
\* a faulty variant of LOOPBACK_HOST: the listener is bound to every interface
LOOPBACK_HOST_Any == "0.0.0.0"

LOOPBACK_HOST == "127.0.0.1"

PORT == 3000

MAX_BODY_SIZE == 1048576

(***************************************************************************)
(* Bounds of the model                                                     *)
(***************************************************************************)
NumReqs == 2

MaxChunks == 2

Reqs == 1..NumReqs

(***************************************************************************)
(* JavaScript values, as JSON.parse builds them                            *)
(***************************************************************************)
Undefined == [t |-> "undefined"]

Null == [t |-> "null"]

Bool(b) == [t |-> "boolean", b |-> b]

Num(n) == [t |-> "number", n |-> n]

Str(cs) == [t |-> "string", s |-> cs]

Arr(es) == [t |-> "array", a |-> es]

\* an object is the sequence of its <<key, value>> members, in insertion order
Obj(ms) == [t |-> "object", o |-> ms]

\* typeof, for the values JSON.parse can build
TypeOf(v) ==
    CASE v.t = "string" -> "string"
      [] v.t = "number" -> "number"
      [] v.t = "boolean" -> "boolean"
      [] v.t = "undefined" -> "undefined"
      [] OTHER -> "object"      \* arrays, objects and null

IsArray(v) == v.t = "array"

(***************************************************************************)
(* Buffer.prototype.toString(): UTF-8 decoding of one chunk.  The bytes    *)
(* C3 A9 encode the character e-acute; a lead byte without its             *)
(* continuation byte, or a continuation byte without its lead byte,        *)
(* decodes to U+FFFD.                                                      *)
(***************************************************************************)
LeadByte == "C3"

ContByte == "A9"

EAcute == "e'"

Replacement == "U+FFFD"

RECURSIVE Utf8Decode(_)
Utf8Decode(bytes) ==
    IF bytes = << >> THEN << >>
    ELSE IF Head(bytes) = LeadByte
         THEN IF Len(bytes) >= 2 /\ bytes[2] = ContByte
              THEN <<EAcute>> \o Utf8Decode(SubSeq(bytes, 3, Len(bytes)))
              ELSE <<Replacement>> \o Utf8Decode(Tail(bytes))
    ELSE IF Head(bytes) = ContByte
         THEN <<Replacement>> \o Utf8Decode(Tail(bytes))
    ELSE <<Head(bytes)>> \o Utf8Decode(Tail(bytes))

\* chunk.toString() of a chunk whose bytes end in ws bytes of white space
ChunkToString(chunk) == [chars |-> Utf8Decode(chunk.bytes), ws |-> chunk.ws]

\* body += chunk.toString()
Append2(body, str) == [chars |-> body.chars \o str.chars, ws |-> body.ws + str.ws]

\* body.length
Length(body) == Len(body.chars) + body.ws

(***************************************************************************)
(* JSON.parse, by recursive descent over the text units.  A result is      *)
(* [ok, val, pos]: whether a value was read, the value, and the index of   *)
(* the first unit after it.                                                *)
(***************************************************************************)
Quote == "\""

WhiteSpace == {" ", "\n"}

Digits == <<"0", "1", "2", "3", "4", "5", "6", "7", "8", "9">>

IsDigit(c) == \E d \in 1..10 : Digits[d] = c

DigitVal(c) == (CHOOSE d \in 1..10 : Digits[d] = c) - 1

Fail == [ok |-> FALSE, val |-> Undefined, pos |-> 0]

Got(v, p) == [ok |-> TRUE, val |-> v, pos |-> p]

RECURSIVE SkipWs(_, _)
SkipWs(s, i) == IF i <= Len(s) /\ s[i] \in WhiteSpace THEN SkipWs(s, i + 1) ELSE i

\* the units of a string up to its closing quote; control characters end it
RECURSIVE ParseChars(_, _, _)
ParseChars(s, i, acc) ==
    IF i > Len(s) \/ s[i] = "\n" THEN Fail
    ELSE IF s[i] = Quote THEN Got(Str(acc), i + 1)
    ELSE ParseChars(s, i + 1, Append(acc, s[i]))

RECURSIVE ParseDigits(_, _, _)
ParseDigits(s, i, acc) ==
    IF i <= Len(s) /\ IsDigit(s[i])
    THEN ParseDigits(s, i + 1, 10 * acc + DigitVal(s[i]))
    ELSE Got(Num(acc), i)

\* a number: digits without a leading zero
ParseNumber(s, i) ==
    IF s[i] = "0" THEN Got(Num(0), i + 1) ELSE ParseDigits(s, i, 0)

\* a literal name such as true: its letters, one unit each
ParseLiteral(s, i, letters, v) ==
    IF i + Len(letters) - 1 <= Len(s) /\ SubSeq(s, i, i + Len(letters) - 1) = letters
    THEN Got(v, i + Len(letters))
    ELSE Fail

\* obj[key] = val: a key that is present keeps its place and takes the value
RECURSIVE SetMember(_, _, _)
SetMember(ms, key, val) ==
    IF ms = << >> THEN << <<key, val>> >>
    ELSE IF Head(ms)[1] = key THEN << <<key, val>> >> \o Tail(ms)
    ELSE <<Head(ms)>> \o SetMember(Tail(ms), key, val)

RECURSIVE ParseValue(_, _)
RECURSIVE ParseElements(_, _, _)
RECURSIVE ParseMembers(_, _, _)

ParseValue(s, i0) ==
    LET i == SkipWs(s, i0) IN
    IF i > Len(s) THEN Fail
    ELSE IF s[i] = Quote THEN ParseChars(s, i + 1, << >>)
    ELSE IF IsDigit(s[i]) THEN ParseNumber(s, i)
    ELSE IF s[i] = "t" THEN ParseLiteral(s, i, <<"t", "r", "u", "e">>, Bool(TRUE))
    ELSE IF s[i] = "f" THEN ParseLiteral(s, i, <<"f", "a", "l", "s", "e">>, Bool(FALSE))
    ELSE IF s[i] = "n" THEN ParseLiteral(s, i, <<"n", "u", "l", "l">>, Null)
    ELSE IF s[i] = "["
         THEN LET j == SkipWs(s, i + 1) IN
              IF j <= Len(s) /\ s[j] = "]" THEN Got(Arr(<< >>), j + 1)
              ELSE ParseElements(s, j, << >>)
    ELSE IF s[i] = "{"
         THEN LET j == SkipWs(s, i + 1) IN
              IF j <= Len(s) /\ s[j] = "}" THEN Got(Obj(<< >>), j + 1)
              ELSE ParseMembers(s, j, << >>)
    ELSE Fail

\* the elements of an array after its "[" and up to its "]"
ParseElements(s, i, acc) ==
    LET e == ParseValue(s, i) IN
    IF ~e.ok THEN Fail
    ELSE LET j == SkipWs(s, e.pos) IN
         IF j > Len(s) THEN Fail
         ELSE IF s[j] = "]" THEN Got(Arr(Append(acc, e.val)), j + 1)
         ELSE IF s[j] = "," THEN ParseElements(s, j + 1, Append(acc, e.val))
         ELSE Fail

\* the members of an object after its "{" and up to its "}"
ParseMembers(s, i0, acc) ==
    LET i == SkipWs(s, i0) IN
    IF i > Len(s) \/ s[i] # Quote THEN Fail
    ELSE LET k == ParseChars(s, i + 1, << >>) IN
         IF ~k.ok THEN Fail
         ELSE LET c == SkipWs(s, k.pos) IN
              IF c > Len(s) \/ s[c] # ":" THEN Fail
              ELSE LET e == ParseValue(s, c + 1) IN
                   IF ~e.ok THEN Fail
                   ELSE LET j == SkipWs(s, e.pos)
                            ms == SetMember(acc, k.val.s, e.val)
                        IN IF j > Len(s) THEN Fail
                           ELSE IF s[j] = "}" THEN Got(Obj(ms), j + 1)
                           ELSE IF s[j] = "," THEN ParseMembers(s, j + 1, ms)
                           ELSE Fail

\* JSON.parse of a sequence of units: one value, then white space only
ParseText(s) ==
    LET r == ParseValue(s, 1) IN
    IF r.ok /\ SkipWs(s, r.pos) > Len(s) THEN r ELSE Fail

\* JSON.parse(body): the white space that ends the body is skipped
JSONParse(body) == ParseText(body.chars)

(***************************************************************************)
(* JSON.stringify(value, null, gap), gap being 0 (one line) or 2           *)
(***************************************************************************)
RECURSIVE NumToChars(_)
NumToChars(n) ==
    IF n < 10 THEN <<Digits[n + 1]>> ELSE NumToChars(n \div 10) \o <<Digits[(n % 10) + 1]>>

RECURSIVE Spaces(_)
Spaces(n) == IF n = 0 THEN << >> ELSE <<" ">> \o Spaces(n - 1)

Quoted(cs) == <<Quote>> \o cs \o <<Quote>>

NewLine(gap, ind) == IF gap = 0 THEN << >> ELSE <<"\n">> \o Spaces(ind)

RECURSIVE Stringify(_, _, _)
RECURSIVE StringifyElements(_, _, _)
RECURSIVE StringifyMembers(_, _, _)

Stringify(v, gap, ind) ==
    CASE v.t = "string" -> Quoted(v.s)
      [] v.t = "number" -> NumToChars(v.n)
      [] v.t = "boolean" -> IF v.b THEN <<"t", "r", "u", "e">>
                                   ELSE <<"f", "a", "l", "s", "e">>
      [] v.t = "null" -> <<"n", "u", "l", "l">>
      [] v.t = "array" ->
            IF v.a = << >> THEN <<"[", "]">>
            ELSE <<"[">> \o StringifyElements(v.a, gap, ind + gap)
                 \o NewLine(gap, ind) \o <<"]">>
      [] v.t = "object" ->
            IF v.o = << >> THEN <<"{", "}">>
            ELSE <<"{">> \o StringifyMembers(v.o, gap, ind + gap)
                 \o NewLine(gap, ind) \o <<"}">>

StringifyElements(es, gap, ind) ==
    NewLine(gap, ind) \o Stringify(Head(es), gap, ind)
    \o (IF Len(es) = 1 THEN << >> ELSE <<",">> \o StringifyElements(Tail(es), gap, ind))

StringifyMembers(ms, gap, ind) ==
    NewLine(gap, ind) \o Quoted(Head(ms)[1]) \o <<":">>
    \o (IF gap = 0 THEN << >> ELSE <<" ">>)
    \o Stringify(Head(ms)[2], gap, ind)
    \o (IF Len(ms) = 1 THEN << >> ELSE <<",">> \o StringifyMembers(Tail(ms), gap, ind))

JSONStringify(v, gap) == Stringify(v, gap, 0)

\* obj[key] of an object value, Undefined when it has no such member
RECURSIVE Member(_, _)
Member(ms, key) ==
    IF ms = << >> THEN Undefined
    ELSE IF Head(ms)[1] = key THEN Head(ms)[2]
    ELSE Member(Tail(ms), key)

Get(v, key) == IF v.t = "object" THEN Member(v.o, <<key>>) ELSE Undefined

(***************************************************************************)
(* The store and the values the handler builds                             *)
(***************************************************************************)
Timestamps == {"T1", "T2"}

\* a faulty variant of categorizeData: the Array.isArray branch is missing
categorizeDataNoArray(data) ==
    IF TypeOf(data) = "string" THEN "text"
    ELSE IF TypeOf(data) = "number" THEN "numeric"
    ELSE IF TypeOf(data) = "object" THEN "object"
    ELSE "unknown"

\* a faulty variant of categorizeData: a value of no named type gets its typeof
categorizeDataTypeOf(data) ==
    IF TypeOf(data) = "string" THEN "text"
    ELSE IF TypeOf(data) = "number" THEN "numeric"
    ELSE IF IsArray(data) THEN "array"
    ELSE TypeOf(data)

\* categorizeData(data)
categorizeData(data) ==
    IF TypeOf(data) = "string" THEN "text"
    ELSE IF TypeOf(data) = "number" THEN "numeric"
    ELSE IF IsArray(data) THEN "array"
    ELSE IF TypeOf(data) = "object" THEN "object"
    ELSE "unknown"

\* a faulty variant of CountRequest: the request is not counted
CountRequestNot(store) == store

\* a faulty variant of CountRequest: a type counter is raised with the total
CountRequestAsObject(store) ==
    [store EXCEPT !.stats.totalRequests = @ + 1, !.stats.objectItems = @ + 1]

\* dataStore.stats.totalRequests++
CountRequest(store) == [store EXCEPT !.stats.totalRequests = @ + 1]

\* a faulty variant of NewItem: the id is the length of the list before the push
NewItemFromZero(items, dataType, jsonData, ts) ==
    [id |-> Len(items), type |-> dataType, data |-> jsonData, timestamp |-> ts]

\* const item = {id, type, data, timestamp}
NewItem(items, dataType, jsonData, ts) ==
    [id |-> Len(items) + 1, type |-> dataType, data |-> jsonData, timestamp |-> ts]

\* a faulty variant of UpdateStats: arrays are counted with the objects
UpdateStatsArrayAsObject(stats, dataType) ==
    IF dataType = "text" THEN [stats EXCEPT !.textItems = @ + 1]
    ELSE IF dataType = "numeric" THEN [stats EXCEPT !.numericItems = @ + 1]
    ELSE IF dataType \in {"object", "array"} THEN [stats EXCEPT !.objectItems = @ + 1]
    ELSE stats

\* if (dataType === 'text') ... else if 'numeric' ... else if 'object' ...
UpdateStats(stats, dataType) ==
    IF dataType = "text" THEN [stats EXCEPT !.textItems = @ + 1]
    ELSE IF dataType = "numeric" THEN [stats EXCEPT !.numericItems = @ + 1]
    ELSE IF dataType = "object" THEN [stats EXCEPT !.objectItems = @ + 1]
    ELSE stats

ItemValue(item) ==
    Obj(<< <<<<"id">>, Num(item.id)>>,
           <<<<"type">>, Str(<<item.type>>)>>,
           <<<<"data">>, item.data>>,
           <<<<"timestamp">>, Str(<<item.timestamp>>)>> >>)

StoreValue(store) ==
    Obj(<< <<<<"items">>, Arr([i \in 1..Len(store.items) |-> ItemValue(store.items[i])])>>,
           <<<<"stats">>,
             Obj(<< <<<<"totalRequests">>, Num(store.stats.totalRequests)>>,
                    <<<<"textItems">>, Num(store.stats.textItems)>>,
                    <<<<"numericItems">>, Num(store.stats.numericItems)>>,
                    <<<<"objectItems">>, Num(store.stats.objectItems)>> >>)>> >>)

\* the body of the answer to GET /json
GetEnvelope(store) ==
    Obj(<< <<<<"status">>, Str(<<"success">>)>>,
           <<<<"loopback_interface">>, Str(<<LOOPBACK_HOST>>)>>,
           <<<<"port">>, Num(PORT)>>,
           <<<<"data">>, StoreValue(store)>> >>)

\* the body of the answer to a POST that stored an item
StoredEnvelope(item) ==
    Obj(<< <<<<"status">>, Str(<<"success">>)>>,
           <<<<"message">>, Str(<<"JSON data stored via loopback interface">>)>>,
           <<<<"item">>, ItemValue(item)>> >>)

\* error.message of the SyntaxError JSON.parse throws
ParseErrorMessage == "Unexpected token"

\* a faulty variant of InvalidEnvelope: the status says success
InvalidEnvelopeSuccess ==
    Obj(<< <<<<"status">>, Str(<<"success">>)>>,
           <<<<"message">>, Str(<<"Invalid JSON">>)>>,
           <<<<"error">>, Str(<<ParseErrorMessage>>)>> >>)

InvalidEnvelope ==
    Obj(<< <<<<"status">>, Str(<<"error">>)>>,
           <<<<"message">>, Str(<<"Invalid JSON">>)>>,
           <<<<"error">>, Str(<<ParseErrorMessage>>)>> >>)

TooLargeEnvelope ==
    Obj(<< <<<<"status">>, Str(<<"error">>)>>,
           <<<<"message">>, Str(<<"Request body too large (max 1MB)">>)>> >>)

NotFoundEnvelope ==
    Obj(<< <<<<"status">>, Str(<<"error">>)>>,
           <<<<"message">>, Str(<<"Endpoint not found">>)>> >>)

(***************************************************************************)
(* The response object.  heads and bodies count what was written.          *)
(***************************************************************************)
JsonType == <<"Content-Type", "application/json">>

NewResponse ==
    [headers |-> {}, headersSent |-> FALSE, statusCode |-> 0, finished |-> FALSE,
     out |-> << >>, heads |-> 0, bodies |-> 0]

\* the three res.setHeader calls that open the handler
CorsHeaders(res) ==
    [res EXCEPT !.headers = {<<"Access-Control-Allow-Origin", "http://127.0.0.1">>,
                             <<"Access-Control-Allow-Methods", "GET, POST, OPTIONS">>,
                             <<"Access-Control-Allow-Headers", "Content-Type">>}]

\* res.writeHead(status, headers): throws once the head has been sent
WriteHead(res, status, hdrs) ==
    IF res.headersSent
    THEN [threw |-> TRUE, res |-> res]
    ELSE [threw |-> FALSE,
          res |-> [res EXCEPT !.headersSent = TRUE, !.statusCode = status,
                              !.headers = @ \cup hdrs, !.heads = @ + 1]]

\* res.end(text): the text is written unless the response has finished
EndWith(res, text) ==
    IF res.finished THEN res
    ELSE [res EXCEPT !.finished = TRUE, !.out = @ \o text,
                     !.bodies = @ + (IF text = << >> THEN 0 ELSE 1)]

\* res.writeHead(status, {'Content-Type': 'application/json'}); res.end(JSON.stringify(...))
SendJson(res, status, value, gap) ==
    LET h == WriteHead(res, status, {JsonType}) IN
    IF h.threw THEN h
    ELSE [threw |-> FALSE, res |-> EndWith(h.res, JSONStringify(value, gap))]

\* a faulty variant of RejectTooLarge: the envelope is written with res.write alone
RejectTooLargeWrite(res) ==
    [threw |-> FALSE,
     res |-> [res EXCEPT !.headersSent = TRUE, !.statusCode = 413,
                         !.heads = IF res.headersSent THEN @ ELSE @ + 1,
                         !.out = @ \o JSONStringify(TooLargeEnvelope, 0),
                         !.bodies = @ + 1]]

\* the answer of the data listener to a body over the limit
RejectTooLarge(res) == SendJson(res, 413, TooLargeEnvelope, 0)

(***************************************************************************)
(* Clients and their request bodies                                        *)
(***************************************************************************)
\* the address of the loopback interface, the address that stands for every
\* interface in a bind, and two addresses of the local network
LoopbackAddr == "127.0.0.1"

Unspecified == "0.0.0.0"

LanAddr == "192.168.0.2"

RemoteAddr == "192.168.0.9"

\* connection attempts, as <<source address, destination address>>
Attempts ==
    {<<LoopbackAddr, LoopbackAddr>>, <<LanAddr, LanAddr>>,
     <<RemoteAddr, LanAddr>>, <<RemoteAddr, LoopbackAddr>>}

\* The loopback interface carries connections of the local machine only; a
\* listener takes the connections to the address it is bound to.
Accepts(bound, src, dst) ==
    /\ dst \in {LoopbackAddr, LanAddr}
    /\ dst = LoopbackAddr => src = LoopbackAddr
    /\ bound = Unspecified \/ bound = dst

TString == <<Quote, "a", Quote>>

TNumber == <<"4", "2">>

TArray == <<"[", "1", "]">>

TObject == <<"{", Quote, "a", Quote, ":", "1", "}">>

TTrue == <<"t", "r", "u", "e">>

TNull == <<"n", "u", "l", "l">>

TBad == <<"{">>

TAccent == <<Quote, LeadByte, ContByte, Quote>>

NoBody == [text |-> << >>, pad |-> 0]

\* the bodies clients post: a JSON text and the white space after it
Bodies ==
    {[text |-> t, pad |-> 0] :
        t \in {TString, TNumber, TArray, TObject, TTrue, TNull, TBad, TAccent}}
    \cup {[text |-> TNumber, pad |-> MAX_BODY_SIZE - Len(TNumber)],
          [text |-> TNumber, pad |-> MAX_BODY_SIZE],
          [text |-> TBad, pad |-> MAX_BODY_SIZE]}

RequestLines ==
    {<<"OPTIONS", "/json">>, <<"GET", "/json">>, <<"POST", "/json">>,
     <<"GET", "/other">>, <<"POST", "/other">>}

\* what the client decodes from the whole text of a response
Decoded(res) == ParseText(res.out).val

(***************************************************************************)
(* State                                                                   *)
(***************************************************************************)
VARIABLES
    process,      \* "running", "exited" (SIGINT) or "crashed" (uncaught exception)
    listening,    \* the address and port server.listen bound
    dataStore,    \* [items, stats]
    conn,         \* per request: the connection, the request and the client
    body,         \* per request: let body of the POST handler
    res,          \* per request: the response object
    crashedBy     \* the request whose listener threw the uncaught exception, or 0

vars == <<process, listening, dataStore, conn, body, res, crashedBy>>

EmptyString == [chars |-> << >>, ws |-> 0]

Idle ==
    [phase |-> "idle", src |-> "", method |-> "", url |-> "", sent |-> NoBody,
     sentText |-> 0, sentPad |-> 0, nchunks |-> 0, wire |-> << >>, destroyed |-> FALSE]

Init ==
    /\ process = "running"
    /\ listening = [host |-> LOOPBACK_HOST, port |-> PORT]
    /\ dataStore = [items |-> << >>,
                    stats |-> [totalRequests |-> 0, textItems |-> 0,
                               numericItems |-> 0, objectItems |-> 0]]
    /\ conn = [r \in Reqs |-> Idle]
    /\ body = [r \in Reqs |-> EmptyString]
    /\ res = [r \in Reqs |-> NewResponse]
    /\ crashedBy = 0

(***************************************************************************)
(* Actions                                                                 *)
(***************************************************************************)
\* a client connects; the listener bound by server.listen takes it or not
Connect(r, src, dst) ==
    /\ process = "running"
    /\ conn[r].phase = "idle"
    /\ conn' = [conn EXCEPT ![r].phase =
                    IF Accepts(listening.host, src, dst) THEN "connected" ELSE "refused",
                            ![r].src = src]
    /\ UNCHANGED <<process, listening, dataStore, body, res, crashedBy>>

\* the request listener of http.createServer
HandleRequest(r, method, url, sent) ==
    /\ process = "running"
    /\ conn[r].phase = "connected"
    /\ dataStore' = CountRequest(dataStore)
    /\ LET res0 == CorsHeaders(res[r]) IN
       IF method = "OPTIONS"
       THEN /\ res' = [res EXCEPT ![r] = EndWith(WriteHead(res0, 200, {}).res, << >>)]
            /\ conn' = [conn EXCEPT ![r].phase = "ended", ![r].method = method,
                                    ![r].url = url]
       ELSE IF method = "GET" /\ url = "/json"
       THEN /\ res' = [res EXCEPT ![r] = SendJson(res0, 200, GetEnvelope(dataStore'), 2).res]
            /\ conn' = [conn EXCEPT ![r].phase = "ended", ![r].method = method,
                                    ![r].url = url]
       ELSE IF method = "POST" /\ url = "/json"
       THEN /\ res' = [res EXCEPT ![r] = res0]
            /\ conn' = [conn EXCEPT ![r].phase = "receiving", ![r].method = method,
                                    ![r].url = url, ![r].sent = sent]
       ELSE /\ res' = [res EXCEPT ![r] = SendJson(res0, 404, NotFoundEnvelope, 0).res]
            /\ conn' = [conn EXCEPT ![r].phase = "ended", ![r].method = method,
                                    ![r].url = url]
    /\ body' = [body EXCEPT ![r] = EmptyString]
    /\ UNCHANGED <<process, listening, crashedBy>>

\* the sizes of the next piece of the white space that ends r's body
PadChoices(r) ==
    LET remPad == conn[r].sent.pad - conn[r].sentPad IN {0, remPad - 1, remPad}

\* the client sends the next k bytes of its text and w bytes of white space
ClientSend(r, k, w) ==
    LET c == conn[r]
        remText == Len(c.sent.text) - c.sentText
        remPad == c.sent.pad - c.sentPad
    IN /\ process = "running"
       /\ c.phase = "receiving" /\ ~c.destroyed
       /\ c.nchunks < MaxChunks
       /\ k \in 0..remText /\ w \in {0, remPad - 1, remPad} /\ w >= 0 /\ k + w > 0
       /\ w > 0 => k = remText
       /\ c.nchunks + 1 = MaxChunks => (k = remText /\ w = remPad)
       /\ conn' = [conn EXCEPT
                     ![r].sentText = @ + k, ![r].sentPad = @ + w, ![r].nchunks = @ + 1,
                     ![r].wire = Append(@, [bytes |-> SubSeq(c.sent.text, c.sentText + 1,
                                                            c.sentText + k),
                                            ws |-> w])]
       /\ UNCHANGED <<process, listening, dataStore, body, res, crashedBy>>

\* a faulty variant of TooLarge: a body of just the limit is rejected too
TooLargeAtLimit(str) == Length(str) >= MAX_BODY_SIZE

\* if (body.length > MAX_BODY_SIZE)
TooLarge(str) == Length(str) > MAX_BODY_SIZE

\* req.on('data', chunk => ...)
OnData(r) ==
    /\ process = "running"
    /\ conn[r].phase = "receiving"
    /\ conn[r].wire # << >>
    /\ LET b == Append2(body[r], ChunkToString(Head(conn[r].wire))) IN
       /\ body' = [body EXCEPT ![r] = b]
       /\ IF TooLarge(b)
          THEN LET a == RejectTooLarge(res[r]) IN
               IF a.threw
               THEN /\ process' = "crashed"
                    /\ crashedBy' = r
                    /\ conn' = [conn EXCEPT ![r].wire = Tail(@)]
                    /\ res' = res
               ELSE /\ res' = [res EXCEPT ![r] = a.res]
                    /\ conn' = [conn EXCEPT ![r].wire = Tail(@), ![r].destroyed = TRUE]
                    /\ UNCHANGED <<process, crashedBy>>
          ELSE /\ conn' = [conn EXCEPT ![r].wire = Tail(@)]
               /\ UNCHANGED <<process, crashedBy, res>>
    /\ UNCHANGED <<listening, dataStore>>

\* the whole body of r has been sent and every chunk of it has been handled
BodyArrived(r) ==
    /\ conn[r].phase = "receiving"
    /\ conn[r].sentText = Len(conn[r].sent.text)
    /\ conn[r].sentPad = conn[r].sent.pad
    /\ conn[r].wire = << >>

\* a faulty variant of EndEmitted: requests are served one at a time
EndEmittedSerial(r) ==
    /\ BodyArrived(r)
    /\ \A q \in Reqs \ {r} : conn[q].phase # "receiving"

\* 'end' is emitted on req once its whole body has been read
EndEmitted(r) == BodyArrived(r)

\* req.on('end', () => ...)
OnEnd(r, ts) ==
    /\ process = "running"
    /\ EndEmitted(r)
    /\ LET p == JSONParse(body[r])
           dataType == categorizeData(p.val)
           item == NewItem(dataStore.items, dataType, p.val, ts)
           ok == SendJson(res[r], 201, StoredEnvelope(item), 2)
           bad == SendJson(res[r], 400, InvalidEnvelope, 0)
       IN /\ dataStore' =
                IF p.ok
                THEN [dataStore EXCEPT !.items = Append(@, item),
                                       !.stats = UpdateStats(@, dataType)]
                ELSE dataStore
          /\ IF p.ok /\ ~ok.threw
             THEN /\ res' = [res EXCEPT ![r] = ok.res]
                  /\ UNCHANGED <<process, crashedBy>>
             ELSE \* catch (error)
                  IF bad.threw
                  THEN /\ process' = "crashed"
                       /\ crashedBy' = r
                       /\ res' = res
                  ELSE /\ res' = [res EXCEPT ![r] = bad.res]
                       /\ UNCHANGED <<process, crashedBy>>
    /\ conn' = [conn EXCEPT ![r].phase = "ended"]
    /\ UNCHANGED <<listening, body>>

\* the socket destroyed by req.connection.destroy() closes: no event follows
SocketClose(r) ==
    /\ process = "running"
    /\ conn[r].phase = "receiving" /\ conn[r].destroyed
    /\ conn' = [conn EXCEPT ![r].phase = "closed", ![r].wire = << >>]
    /\ UNCHANGED <<process, listening, dataStore, body, res, crashedBy>>

\* process.on('SIGINT', ...): process.exit(0)
Sigint ==
    /\ process = "running"
    /\ process' = "exited"
    /\ UNCHANGED <<listening, dataStore, conn, body, res, crashedBy>>

Next ==
    \/ \E r \in Reqs, a \in Attempts : Connect(r, a[1], a[2])
    \/ \E r \in Reqs, l \in RequestLines, b \in Bodies : HandleRequest(r, l[1], l[2], b)
    \/ \E r \in Reqs : \E k \in 0..Len(conn[r].sent.text), w \in PadChoices(r) :
            ClientSend(r, k, w)
    \/ \E r \in Reqs : OnData(r)
    \/ \E r \in Reqs, ts \in Timestamps : OnEnd(r, ts)
    \/ \E r \in Reqs : SocketClose(r)
    \/ Sigint

Spec == Init /\ [][Next]_vars

(***************************************************************************)
(* What a client sent and what it got back                                 *)
(***************************************************************************)
IsPost(r) == conn[r].method = "POST" /\ conn[r].url = "/json"

\* the end listener of r has run
Ended(r) == IsPost(r) /\ conn[r].phase = "ended"

\* JSON.parse of the whole body the client of r sent
SentJson(r) == ParseText(Utf8Decode(conn[r].sent.text))

\* the size of that body, in bytes
SentSize(r) == Len(conn[r].sent.text) + conn[r].sent.pad

\* the envelope the client of r reads, and the item in it
Envelope(r) == Decoded(res[r])

Status(r) == Get(Envelope(r), "status")

EchoedItem(r) == Get(Envelope(r), "item")

\* the category of a value of one of the four named types
NamedCategory(v) ==
    CASE v.t = "string" -> "text"
      [] v.t = "number" -> "numeric"
      [] v.t = "array" -> "array"
      [] v.t = "object" -> "object"
      [] OTHER -> "none"

\* the kind the specification of the line service gives the same value
NamedKind(v) ==
    CASE v.t = "string" -> "text"
      [] v.t = "number" -> "number"
      [] v.t = "array" -> "array"
      [] v.t = "object" -> "object"
      [] OTHER -> "unknown"

(***************************************************************************)
(* C1. As stated: every request whose body is a valid JSON value is        *)
(* answered with status ok and a kind text, number, array or object that   *)
(* matches the type of the value.                                          *)
(***************************************************************************)
C1_StatusOkKind ==
    \A r \in Reqs :
        (Ended(r) /\ SentJson(r).ok) =>
            /\ Status(r) = Str(<<"ok">>)
            /\ Get(Envelope(r), "kind") = Str(<<NamedKind(SentJson(r).val)>>)

\* C1, amended: every POST /json whose body is a valid JSON value of at most
\* MAX_BODY_SIZE bytes is answered, once its end is read, with 201, status
\* success and an item; the type of the item is text for a string, numeric for
\* a number, array for a list and object for a keyed mapping.
C1_SuccessType ==
    \A r \in Reqs :
        (Ended(r) /\ SentJson(r).ok /\ SentSize(r) <= MAX_BODY_SIZE) =>
            /\ res[r].statusCode = 201
            /\ Status(r) = Str(<<"success">>)
            /\ EchoedItem(r).t = "object"
            /\ NamedCategory(SentJson(r).val) # "none" =>
                   Get(EchoedItem(r), "type") = Str(<<NamedCategory(SentJson(r).val)>>)

\* C1 witness: a list sent in two chunks and a number followed by white space up
\* to the size limit have both been stored
C1_Witness ==
    \E r, q \in Reqs :
        /\ Ended(r) /\ conn[r].sent.text = TArray /\ conn[r].nchunks = 2
        /\ res[r].statusCode = 201
        /\ Ended(q) /\ SentSize(q) = MAX_BODY_SIZE /\ res[q].statusCode = 201

(***************************************************************************)
(* C2. Every decoded value that is true, false or null is classified as    *)
(* unknown, never as text, numeric, array or object.                       *)
(***************************************************************************)
C2_BooleansAndNullUnknown ==
    \A i \in 1..Len(dataStore.items) :
        dataStore.items[i].data.t \in {"boolean", "null"} =>
            dataStore.items[i].type = "unknown"

(***************************************************************************)
(* C3. A request whose body fails JSON parsing is answered with status     *)
(* error and a message that is not empty, and the server keeps running: no *)
(* listener of such a request ends the process.                            *)
(***************************************************************************)
Malformed(r) == IsPost(r) /\ ~SentJson(r).ok

C3_ErrorAndKeepsRunning ==
    \A r \in Reqs :
        Malformed(r) =>
            /\ crashedBy # r
            /\ res[r].finished =>
                   /\ Status(r) = Str(<<"error">>)
                   /\ Get(Envelope(r), "message").t = "string"
                   /\ Get(Envelope(r), "message").s # << >>

(***************************************************************************)
(* C4. No request has a second response head or a second response body    *)
(* written for it, whatever data, rejection and end events it goes through *)
(***************************************************************************)
C4_AnsweredAtMostOnce ==
    \A r \in Reqs : res[r].heads <= 1 /\ res[r].bodies <= 1

\* C4 witness: a request was rejected for its size and then went through a
\* further data or end event
C4_Witness ==
    \E r \in Reqs :
        /\ res[r].statusCode = 413 /\ res[r].heads = 1 /\ res[r].bodies = 1
        /\ crashedBy = r

(***************************************************************************)
(* C5. When two clients post concurrently, the value and the type in the   *)
(* response of each are those of the body that client sent.                *)
(***************************************************************************)
C5_OwnResponseOnly ==
    \A r, q \in Reqs :
        (/\ r # q
         /\ Ended(r) /\ res[r].statusCode = 201
         /\ IsPost(q) /\ conn[q].phase = "receiving" /\ body[q] # EmptyString) =>
            /\ Get(EchoedItem(r), "data") = SentJson(r).val
            /\ Get(EchoedItem(r), "type") = Str(<<categorizeData(SentJson(r).val)>>)

(***************************************************************************)
(* C6. A client that has opened a request and never finishes its body does *)
(* not block the others: while it is stalled, 'end' is emitted for every   *)
(* other request whose whole body has been read, so that its end listener  *)
(* can run, and a request whose end listener has run is answered.          *)
(***************************************************************************)
Stalled(q) ==
    /\ conn[q].phase = "receiving" /\ ~conn[q].destroyed
    /\ conn[q].wire = << >>
    /\ conn[q].sentText + conn[q].sentPad < SentSize(q)

WholeBodyRead(r) ==
    /\ conn[r].phase = "receiving"
    /\ conn[r].sentText + conn[r].sentPad = SentSize(r)
    /\ conn[r].wire = << >>

C7_OneEnvelopePerEnd ==
    \A r \in Reqs :
        Ended(r) =>
            /\ res[r].finished /\ res[r].heads = 1 /\ res[r].bodies = 1
            /\ Status(r) = Str(<<IF SentJson(r).ok THEN "success" ELSE "error">>)

\* C7, amended: every POST /json whose body of at most MAX_BODY_SIZE bytes has
\* been read to its end is answered with exactly one envelope: 400 and status
\* error when the body is malformed, 201 and status success when it is well
\* formed.
C7_OneEnvelopeWithinLimit ==
    \A r \in Reqs :
        (Ended(r) /\ SentSize(r) <= MAX_BODY_SIZE) =>
            /\ res[r].finished /\ res[r].heads = 1 /\ res[r].bodies = 1
            /\ res[r].statusCode = IF SentJson(r).ok THEN 201 ELSE 400
            /\ Status(r) = Str(<<IF SentJson(r).ok THEN "success" ELSE "error">>)

\* C7 witness: a malformed body and a well-formed body have both been read to
\* their end and answered
C7_Witness ==
    \E r, q \in Reqs :
        /\ Ended(r) /\ ~SentJson(r).ok /\ res[r].statusCode = 400
        /\ Ended(q) /\ SentJson(q).ok /\ res[q].statusCode = 201

(***************************************************************************)
(* C8. The success envelope carries the decoded value unchanged: the value *)
(* echoed in the response equals the JSON value of the request's body.     *)
(***************************************************************************)
C8_EchoEqualsSent ==
    \A r \in Reqs :
        (Ended(r) /\ res[r].statusCode = 201) =>
            Get(EchoedItem(r), "data") = SentJson(r).val

(***************************************************************************)
(* C9. The listener is bound to 127.0.0.1 in every state, and no           *)
(* connection from a source that is not the loopback address is accepted.  *)
(***************************************************************************)
C9_LoopbackOnly ==
    /\ listening.host = LoopbackAddr
    /\ \A r \in Reqs :
           conn[r].phase \notin {"idle", "refused"} => conn[r].src = LoopbackAddr

\* C9 witness: a connection from another machine was refused and a connection
\* from the loopback address has been served
C9_Witness ==
    \E r, q \in Reqs :
        /\ conn[r].phase = "refused" /\ conn[r].src = RemoteAddr
        /\ conn[q].phase = "ended" /\ conn[q].src = LoopbackAddr

WholeBodyHandled(r) ==
    /\ conn[r].sentText + conn[r].sentPad = SentSize(r)
    /\ conn[r].wire = << >>

C11_ReadParseRespond ==
    \A r \in Reqs :
        (IsPost(r) /\ res[r].headersSent) => (Ended(r) /\ WholeBodyHandled(r))

\* C11, amended: no response other than the 413 rejection of a body that has
\* grown past MAX_BODY_SIZE is written for a POST /json before its whole body
\* has been read and the end listener has attempted to parse it.
C11_OnlyRejectionBeforeParse ==
    \A r \in Reqs :
        (IsPost(r) /\ res[r].headersSent) =>
            \/ Ended(r) /\ WholeBodyHandled(r)
            \/ res[r].statusCode = 413 /\ Length(body[r]) > MAX_BODY_SIZE

\* C11 witness: one request was rejected in the middle of its body, another
\* was answered after the second of its two chunks was read and parsed
C11_Witness ==
    \E r, q \in Reqs :
        /\ IsPost(r) /\ res[r].statusCode = 413 /\ conn[r].sentPad < conn[r].sent.pad
        /\ Ended(q) /\ conn[q].nchunks = 2 /\ res[q].statusCode = 201


\* the handler of http.createServer has been entered for request r
Started(r) == conn[r].phase \in {"receiving", "ended", "closed"}

\* C12: in every reachable state totalRequests is the number of requests the
\* handler has started, whatever their method, path or body, and so it is
\* never smaller than the number of stored items.
C12_TotalCountsEveryRequest ==
    /\ dataStore.stats.totalRequests = Cardinality({r \in Reqs : Started(r)})
    /\ dataStore.stats.totalRequests >= Len(dataStore.items)

\* a request to an unknown endpoint and a rejected oversized POST have both
\* been counted, and nothing is stored
C12_Witness ==
    \E r, q \in Reqs :
        /\ res[r].statusCode = 404
        /\ IsPost(q) /\ res[q].statusCode = 413
        /\ dataStore.stats.totalRequests = 2
        /\ dataStore.items = << >>


\* the id the answer to r echoes
EchoedId(r) == Get(EchoedItem(r), "id")

\* C13: after any interleaving of POST requests the id of every stored item
\* is its 1-based position in the items list (unique, from 1, without gaps),
\* and two requests that were both stored were told different ids.
C13_IdIsPosition ==
    /\ \A i \in 1..Len(dataStore.items) : dataStore.items[i].id = i
    /\ \A r, q \in Reqs :
           (r # q /\ res[r].statusCode = 201 /\ res[q].statusCode = 201)
               => EchoedId(r) # EchoedId(q)

\* two POST requests whose chunks were in flight at the same time have both
\* been stored
C13_Witness ==
    \E r, q \in Reqs :
        /\ r # q
        /\ conn[r].nchunks = 2 /\ conn[q].nchunks = 2
        /\ res[r].statusCode = 201 /\ res[q].statusCode = 201
        /\ EchoedId(r) = Num(1) /\ EchoedId(q) = Num(2)
        /\ Len(dataStore.items) = 2


\* the number of stored items typed ty
ItemsTyped(ty) ==
    Cardinality({i \in 1..Len(dataStore.items) : dataStore.items[i].type = ty})

\* textItems + numericItems + objectItems
TypeCounters ==
    dataStore.stats.textItems + dataStore.stats.numericItems
        + dataStore.stats.objectItems

\* C14: in every reachable state each type counter is the number of stored
\* items of its type (textItems: text, numericItems: numeric, objectItems:
\* object); items typed array or unknown are counted nowhere, so the three
\* counters sum to at most the number of stored items.
C14_CountersMatchItems ==
    /\ dataStore.stats.textItems = ItemsTyped("text")
    /\ dataStore.stats.numericItems = ItemsTyped("numeric")
    /\ dataStore.stats.objectItems = ItemsTyped("object")
    /\ TypeCounters <= Len(dataStore.items)

\* an array and an object are stored: one item is in no counter
C14_Witness ==
    /\ Len(dataStore.items) = 2
    /\ ItemsTyped("array") = 1
    /\ ItemsTyped("object") = 1
    /\ TypeCounters = 1


\* the texts clients post that are not JSON
MalformedTexts == {b.text : b \in {c \in Bodies : ~ParseText(Utf8Decode(c.text)).ok}}

\* r is a request that stores nothing: an OPTIONS request, a GET /json, a
\* request to an unknown endpoint or a POST /json of malformed JSON
NonStoring(r) ==
    /\ Started(r)
    /\ \/ conn[r].method = "OPTIONS"
       \/ conn[r].method = "GET" /\ conn[r].url = "/json"
       \/ conn[r].method # "OPTIONS" /\ conn[r].url # "/json"
       \/ IsPost(r) /\ conn[r].sent.text \in MalformedTexts

\* C15: no step of a request that stores nothing (malformed POST, GET /json,
\* OPTIONS, unknown endpoint) changes the items list or one of the three type
\* counters; only totalRequests changes, by one, when the handler starts.
C15_NonStoringFrame ==
    [][\A r \in Reqs :
          (conn'[r] # conn[r] /\ NonStoring(r)') =>
              /\ dataStore'.items = dataStore.items
              /\ dataStore'.stats.textItems = dataStore.stats.textItems
              /\ dataStore'.stats.numericItems = dataStore.stats.numericItems
              /\ dataStore'.stats.objectItems = dataStore.stats.objectItems
              /\ dataStore'.stats.totalRequests =
                     dataStore.stats.totalRequests + (IF Started(r) THEN 0 ELSE 1)]_vars

\* after one stored item, a POST of malformed JSON was answered 400 and the
\* store still holds that one item
C15_Witness ==
    \E r, q \in Reqs :
        /\ res[q].statusCode = 201
        /\ NonStoring(r) /\ IsPost(r) /\ res[r].statusCode = 400
        /\ Len(dataStore.items) = 1
        /\ TypeCounters = 1
        /\ dataStore.stats.totalRequests = 2


\* C16: a POST whose body grows past the 1 MB limit is rejected with the 413
\* error envelope and is never stored: whatever event follows on the request
\* once it is rejected, no item is added and no type counter changes.
C16_RejectedNeverStored ==
    [][\A r \in Reqs :
          (res[r].statusCode = 413 /\ conn'[r] # conn[r]) =>
              /\ dataStore'.items = dataStore.items
              /\ dataStore'.stats.textItems = dataStore.stats.textItems
              /\ dataStore'.stats.numericItems = dataStore.stats.numericItems
              /\ dataStore'.stats.objectItems = dataStore.stats.objectItems]_vars

=============================================================================
